---- MODULE Spec2Model ----
(***************************************************************************)
(* canid: the prefix cache (PrefixCache.Lookup), the address cache         *)
(* (AddressCache.Lookup), their backend limiters and the RIPEstat client   *)
(* (callRipestat, LookupRipestat), as a state machine of goroutines that   *)
(* each run one lookup at a time.                                          *)
(*                                                                         *)
(* Addresses are scaled down: an IPv4 address has V4AddrBits bits and its  *)
(* descent starts at V4PrefixLen (24 of 32 in the source), an IPv6 address *)
(* has V6AddrBits bits and starts at V6PrefixLen (48 of 128).  Time is in   *)
(* whole seconds, which is what int(time.Since(..).Seconds()) compares.    *)
(***************************************************************************)
EXTENDS Integers, Sequences, FiniteSets, TLC

\* ---------------------------------------------------------------- bounds
NumProcs == 2
MaxLookups == 2
Expiry == 1
Concurrency == 1
V4PrefixLen == 3

V4AddrBits == V4PrefixLen + 1
V6PrefixLen == V4PrefixLen + 1
V6AddrBits == V6PrefixLen + 1
MaxTime == Expiry + 2
SeqLookups == MaxLookups

\* const canidStorageVersion = 1
canidStorageVersion == 1

StatusOK == 200
StatusBadRequest == 400
StatusInternalServerError == 500

Procs == 1..NumProcs
SeqProcs == {1}

\* ------------------------------------------------------------- addresses
IP4(v) == [v6 |-> FALSE, val |-> v]
IP6(v) == [v6 |-> TRUE, val |-> v]

\* Two IPv4 addresses that share every probed prefix, one that shares only
\* the shortest one with them, and an IPv6 address.
AddrA == IP4(2 ^ V4AddrBits - 2 ^ (V4AddrBits - 1) + 2)
AddrB == IP4(AddrA.val + 1)
AddrC == IP4(2 ^ V4AddrBits - 2 ^ (V4AddrBits - 2))
AddrD == IP6(2 ^ V6AddrBits - 3)
LookupAddrs == {AddrA, AddrB, AddrC, AddrD}

\* strings.Contains(addr.String(), ":")
IsV6(addr) == addr.v6

\* net.IP.String(): the text form of an address
IPString(addr) ==
    IF IsV6(addr) THEN ToString(addr.val) \o "::" ELSE ToString(addr.val)

\* The nil net.IP that net.ParseIP returns for text that is not an address
NilIP == [v6 |-> FALSE, val |-> 0 - 1]

\* net.ParseIP(s)
ParseIP(s) ==
    IF \E a \in LookupAddrs : IPString(a) = s
    THEN CHOOSE a \in LookupAddrs : IPString(a) = s
    ELSE NilIP

prefixlen(addr) == IF IsV6(addr) THEN V6PrefixLen ELSE V4PrefixLen

addrbits(addr) == IF IsV6(addr) THEN V6AddrBits ELSE V4AddrBits

\* addr.Mask(net.CIDRMask(len, addrbits)): the top len bits kept
Mask(addr, len) ==
    LET low == 2 ^ (addrbits(addr) - len)
    IN  (addr.val \div low) * low

\* net.IPNet{addr.Mask(mask), mask}.String(): the canonical CIDR string
IPNetString(addr, len) ==
    IF IsV6(addr)
    THEN ToString(Mask(addr, len)) \o "::/" \o ToString(len)
    ELSE ToString(Mask(addr, len)) \o "/" \o ToString(len)

\* ---------------------------------------------------------------- records
ZeroTime == 0 - 1000000

ZeroPrefixInfo == [Prefix |-> "", ASN |-> 0, CountryCode |-> "", Cached |-> ZeroTime]

ZeroAddressInfo == [Name |-> "", Addresses |-> <<>>, Cached |-> ZeroTime]

\* int(time.Since(out.Cached).Seconds()) > cache.expiry   (PrefixCache)
ExpiredOffByOne(cached, t) == t - cached >= Expiry
ExpiredLate(cached, t) == t - cached > Expiry + 1
Expired(cached, t) == t - cached > Expiry

\* int(time.Since(out.Cached).Seconds()) > cache.expiry   (AddressCache)
AddrExpiredOffByOne(cached, t) == t - cached >= Expiry
AddrExpired(cached, t) == t - cached > Expiry

\* ------------------------------------------------------ RIPEstat backend
\* What the backend may answer.  fail is "get" when http.Get fails, "decode"
\* when the body is no JSON document of the expected shape, "" otherwise.
FailedDoc(fail, status) ==
    [fail |-> fail, Status |-> status, Is_Less_Specific |-> FALSE,
     Resource |-> "", BlockResource |-> "", ASNs |-> <<>>, Locations |-> <<>>]

FailedDocs == {FailedDoc("get", ""), FailedDoc("decode", ""), FailedDoc("", "error")}

\* Documents with status ok: the resource is the announced prefix when the
\* address is more specific than it, and the block is reported otherwise.
OkDocs(resources, blocks, asns, locations) ==
    [fail : {""}, Status : {"ok"}, Is_Less_Specific : BOOLEAN,
     Resource : resources, BlockResource : blocks,
     ASNs : asns, Locations : locations]

\* The prefix a document with status ok reports
ReportedPrefix(resp) ==
    IF resp.Is_Less_Specific THEN resp.Resource ELSE resp.BlockResource

callRipestatOverwritesPrefix(resp, out) ==
    IF resp.fail = "get" THEN [out |-> out, err |-> "http.Get failed"]
    ELSE IF resp.fail = "decode" THEN [out |-> out, err |-> "json decode failed"]
    ELSE IF resp.Status # "ok"
    THEN [out |-> out, err |-> "RIPEstat request failed with status " \o resp.Status]
    ELSE [out |-> [out EXCEPT
                     !.Prefix = ReportedPrefix(resp),
                     !.ASN = IF Len(resp.ASNs) > 0 THEN resp.ASNs[1] ELSE @,
                     !.CountryCode = IF Len(resp.Locations) > 0
                                     THEN resp.Locations[1] ELSE @],
          err |-> ""]

\* callRipestat(apiurl, addr, out): resp is what the backend answered.
\* The result is the record out points to afterwards, and the error.
callRipestat(resp, out) ==
    IF resp.fail = "get" THEN [out |-> out, err |-> "http.Get failed"]
    ELSE IF resp.fail = "decode" THEN [out |-> out, err |-> "json decode failed"]
    ELSE IF resp.Status # "ok"
    THEN [out |-> out, err |-> "RIPEstat request failed with status " \o resp.Status]
    ELSE LET prefix == IF out.Prefix = ""
                       THEN (IF resp.Is_Less_Specific THEN resp.Resource
                                                      ELSE resp.BlockResource)
                       ELSE out.Prefix
             asn == IF Len(resp.ASNs) > 0 THEN resp.ASNs[1] ELSE out.ASN
             cc == IF Len(resp.Locations) > 0 THEN resp.Locations[1]
                                              ELSE out.CountryCode
         IN  [out |-> [out EXCEPT !.Prefix = prefix, !.ASN = asn, !.CountryCode = cc],
              err |-> ""]

\* ----------------------------------------------------------------- locks
\* sync.RWMutex: the goroutines holding it for reading, and for writing
FreeLock == [r |-> {}, w |-> {}]

CanRLock(lock) == lock.w = {}

CanLock(lock) == lock.r = {} /\ lock.w = {}

\* ------------------------------------------------------- limiter channel
\* backend_limiter is a buffered channel of capacity concurrency_limit; only
\* its length matters.  A send blocks while the buffer is full.
CanSendUnbounded(n) == TRUE
CanSend(n) == n < Concurrency

ChanSend(n) == n + 1

ChanRecv(n) == n - 1

\* ------------------------------------------------------------------ maps
MapPut(m, k, v) == [x \in (DOMAIN m) \cup {k} |-> IF x = k THEN v ELSE m[x]]

MapDelete(m, k) == [x \in (DOMAIN m) \ {k} |-> m[x]]

EmptyMap == [x \in {} |-> ZeroPrefixInfo]

\* ----------------------------------------------------------------- state
VARIABLES
    now,            \* the clock, in seconds
    started,        \* lookups begun so far by the HTTP front end
    prefixData,     \* PrefixCache.Data
    prefixLock,     \* PrefixCache.lock
    prefixLimiter,  \* len(PrefixCache.backend_limiter)
    addrData,       \* AddressCache.Data
    addrLock,       \* AddressCache.lock
    addrLimiter,    \* len(AddressCache.backend_limiter)
    pc,             \* where each goroutine stands
    top,            \* the lookup the front end asked of it: "", "prefix", "address"
    pf,             \* the locals of its PrefixCache.Lookup
    af,             \* the locals of its AddressCache.Lookup
    obs,            \* history: what each goroutine's current lookup saw and did
    hist,           \* history: the record the last Lookup of each address fetched from the backend
    mainpc,         \* where main stands: "start", "check", "serving", "fatal"
    storage,        \* canidStorage: its Version
    file,           \* the backing file main was given
    http            \* the request each handler serves and what it has written

vars ==
    <<now, started, prefixData, prefixLock, prefixLimiter, addrData, addrLock,
      addrLimiter, pc, top, pf, af, obs, hist, mainpc, storage, file, http>>

NotFound == [ok |-> FALSE, rec |-> ZeroPrefixInfo]

ZeroPF == [addr |-> IP4(0), i |-> 0, found |-> NotFound, out |-> ZeroPrefixInfo, err |-> ""]

ZeroAF ==
    [name |-> "", ok |-> FALSE, out |-> ZeroAddressInfo,
     addrs |-> <<>>, err |-> "", idx |-> 0]

NoHist == [set |-> FALSE, rec |-> ZeroPrefixInfo, precache |-> FALSE, warm |-> FALSE]

\* History of the geolocation query of a LookupRipestat: whether it was
\* made, the error it returned, and the prefix its document reported
NoGeo == [called |-> FALSE, err |-> "", prefix |-> ""]

ZeroObs ==
    [called |-> FALSE, snap |-> EmptyMap, hsnap |-> NoHist,
     tstart |-> 0, berr |-> "", evicted |-> {},
     asnap |-> EmptyMap, atstart |-> 0, resolved |-> FALSE, rerr |-> "",
     perr |-> FALSE, pcalls |-> 0, psnap |-> EmptyMap, aevicted |-> FALSE,
     first |-> ZeroPrefixInfo, geo |-> NoGeo]

\* The backing file: absent (no -file flag, or the file cannot be opened);
\* present but not decodable; or a dump with or without a Version member
NoFile ==
    [present |-> FALSE, decodes |-> FALSE, hasVersion |-> FALSE, Version |-> 0,
     Prefixes |-> EmptyMap, Addresses |-> EmptyMap]

\* What a handler holds: the query parameter it was given, the status and
\* the body it has written (status 0: nothing written yet)
NoResponse ==
    [query |-> "", status |-> 0, Error |-> "",
     prefix |-> ZeroPrefixInfo, address |-> ZeroAddressInfo]

\* NewPrefixCache, NewAddressCache, newStorage
Init ==
    /\ now = 0
    /\ started = 0
    /\ prefixData = EmptyMap
    /\ prefixLock = FreeLock
    /\ prefixLimiter = 0
    /\ addrData = EmptyMap
    /\ addrLock = FreeLock
    /\ addrLimiter = 0
    /\ pc = [p \in Procs |-> "idle"]
    /\ top = [p \in Procs |-> ""]
    /\ pf = [p \in Procs |-> ZeroPF]
    /\ af = [p \in Procs |-> ZeroAF]
    /\ obs = [p \in Procs |-> ZeroObs]
    /\ hist = [a \in LookupAddrs |-> NoHist]
    /\ mainpc = "start"
    /\ storage = [Version |-> canidStorageVersion]
    /\ file = NoFile
    /\ http = [p \in Procs |-> NoResponse]

mainVars == <<mainpc, storage, file>>

prefixVars == <<prefixData, prefixLock, prefixLimiter>>

addrVars == <<addrData, addrLock, addrLimiter>>

\* ------------------------------------------------- PrefixCache.Lookup
\* Entry of PrefixCache.Lookup(a): the starting length is chosen.
\* (The map, the clock and the history at entry are remembered where the
\* lookups follow each other.)
EnterPrefixLookup(p, a, inp) ==
    /\ pf' = [pf EXCEPT ![p] = [ZeroPF EXCEPT !.addr = a, !.i = prefixlen(a)]]
    /\ obs' = [obs EXCEPT ![p].called = FALSE,
                          ![p].snap = IF inp.history THEN prefixData ELSE EmptyMap,
                          ![p].hsnap = IF inp.history THEN hist[a] ELSE NoHist,
                          ![p].tstart = IF inp.history THEN now ELSE 0,
                          ![p].berr = "", ![p].evicted = {},
                          ![p].first = ZeroPrefixInfo, ![p].geo = NoGeo]

PrefixReturnAbortsPrecaching(p, o, e) ==
    /\ hist' = IF e = "" /\ obs[p].called
               THEN [hist EXCEPT ![pf[p].addr] =
                        [set |-> TRUE, rec |-> o, precache |-> (top[p] = "address"),
                         warm |-> FALSE]]
               ELSE hist
    /\ IF top[p] = "prefix"
       THEN /\ pc' = [pc EXCEPT ![p] = "p_ret"]
            /\ pf' = [pf EXCEPT ![p] = [ZeroPF EXCEPT !.addr = pf[p].addr, !.out = o, !.err = e]]
            /\ af' = af
            /\ obs' = obs
       ELSE /\ pc' = [pc EXCEPT ![p] = "a_loop"]
            /\ pf' = [pf EXCEPT ![p] = ZeroPF]
            /\ af' = [af EXCEPT ![p].idx = @ + 1,
                                ![p].out.Addresses = IF e # "" THEN <<>> ELSE @]
            /\ obs' = [obs EXCEPT ![p].perr = (@ \/ e # ""),
                                  ![p].pcalls = @ + (IF obs[p].called THEN 1 ELSE 0)]

\* A return of PrefixCache.Lookup with (o, e): to the front end, or to the
\* precaching loop of AddressCache.Lookup, which drops both.
PrefixReturn(p, o, e) ==
    /\ hist' = IF e = "" /\ obs[p].called
               THEN [hist EXCEPT ![pf[p].addr] =
                        [set |-> TRUE, rec |-> o, precache |-> (top[p] = "address"),
                         warm |-> FALSE]]
               ELSE hist
    /\ IF top[p] = "prefix"
       THEN /\ pc' = [pc EXCEPT ![p] = "p_ret"]
            /\ pf' = [pf EXCEPT ![p] = [ZeroPF EXCEPT !.addr = pf[p].addr, !.out = o, !.err = e]]
            /\ af' = af
            /\ obs' = obs
       ELSE /\ pc' = [pc EXCEPT ![p] = "a_loop"]
            /\ pf' = [pf EXCEPT ![p] = ZeroPF]
            /\ af' = [af EXCEPT ![p].idx = @ + 1]
            /\ obs' = [obs EXCEPT ![p].perr = (@ \/ e # ""),
                                  ![p].pcalls = @ + (IF obs[p].called THEN 1 ELSE 0)]

\* PrefixCache.LookupServer gets a request: status 400 and nothing else when
\* the addr parameter does not parse, PrefixCache.Lookup(ip) otherwise
StartPrefix(p, inp) ==
    /\ mainpc = "serving"
    /\ pc[p] = "idle"
    /\ started < inp.lookups
    /\ started' = started + 1
    /\ top' = [top EXCEPT ![p] = "prefix"]
    /\ \E q \in inp.queries :
          IF ParseIP(q) = NilIP
          THEN /\ http' = [http EXCEPT ![p] =
                             [NoResponse EXCEPT !.query = q, !.status = StatusBadRequest]]
               /\ pc' = [pc EXCEPT ![p] = "h_done"]
               /\ UNCHANGED <<pf, obs>>
          ELSE /\ http' = [http EXCEPT ![p] = [NoResponse EXCEPT !.query = q]]
               /\ pc' = [pc EXCEPT ![p] = "p_rlock"]
               /\ EnterPrefixLookup(p, ParseIP(q), inp)
    /\ UNCHANGED <<mainVars, now, prefixVars, addrVars, af, hist>>

\* cache.lock.RLock()
P_RLock(p) ==
    /\ pc[p] = "p_rlock"
    /\ CanRLock(prefixLock)
    /\ prefixLock' = [prefixLock EXCEPT !.r = @ \cup {p}]
    /\ pc' = [pc EXCEPT ![p] = "p_read"]
    /\ UNCHANGED <<mainVars, http, now, started, prefixData, prefixLimiter, addrVars, top, pf, af, obs, hist>>

P_ReadKeepsLock(p) ==
    /\ pc[p] = "p_read"
    /\ LET prefix == IPNetString(pf[p].addr, pf[p].i)
       IN  pf' = [pf EXCEPT ![p].found =
                    IF prefix \in DOMAIN prefixData
                    THEN [ok |-> TRUE, rec |-> prefixData[prefix]]
                    ELSE NotFound]
    /\ pc' = [pc EXCEPT ![p] = "p_check"]
    /\ UNCHANGED <<mainVars, http, now, started, prefixVars, addrVars, top, af, obs, hist>>

\* out, ok := cache.Data[prefix]; cache.lock.RUnlock()
P_Read(p) ==
    /\ pc[p] = "p_read"
    /\ LET prefix == IPNetString(pf[p].addr, pf[p].i)
       IN  pf' = [pf EXCEPT ![p].found =
                    IF prefix \in DOMAIN prefixData
                    THEN [ok |-> TRUE, rec |-> prefixData[prefix]]
                    ELSE NotFound]
    /\ prefixLock' = [prefixLock EXCEPT !.r = @ \ {p}]
    /\ pc' = [pc EXCEPT ![p] = "p_check"]
    /\ UNCHANGED <<mainVars, http, now, started, prefixData, prefixLimiter, addrVars, top, af, obs, hist>>

P_HitRefreshes(p) ==
    /\ pc[p] = "p_check"
    /\ pf[p].found.ok
    /\ ~Expired(pf[p].found.rec.Cached, now)
    /\ prefixData' = IF pf[p].found.rec.Prefix \in DOMAIN prefixData
                     THEN [prefixData EXCEPT ![pf[p].found.rec.Prefix].Cached = now]
                     ELSE prefixData
    /\ PrefixReturn(p, pf[p].found.rec, "")
    /\ UNCHANGED <<mainVars, http, now, started, prefixLock, prefixLimiter, addrVars, top>>

\* if ok, not expired: return out, nil
P_Hit(p) ==
    /\ pc[p] = "p_check"
    /\ pf[p].found.ok
    /\ ~Expired(pf[p].found.rec.Cached, now)
    /\ PrefixReturn(p, pf[p].found.rec, "")
    /\ UNCHANGED <<mainVars, http, now, started, prefixVars, addrVars, top>>

\* if ok, expired: go and delete the entry
P_Expired(p) ==
    /\ pc[p] = "p_check"
    /\ pf[p].found.ok
    /\ Expired(pf[p].found.rec.Cached, now)
    /\ pc' = [pc EXCEPT ![p] = "p_wlock"]
    /\ UNCHANGED <<mainVars, http, now, started, prefixVars, addrVars, top, pf, af, obs, hist>>

P_MissStopsEarly(p) ==
    /\ pc[p] = "p_check"
    /\ ~pf[p].found.ok
    /\ pf' = [pf EXCEPT ![p].i = @ - 1]
    /\ pc' = [pc EXCEPT ![p] = IF pf[p].i - 1 > 1 THEN "p_rlock" ELSE "p_acq"]
    /\ UNCHANGED <<mainVars, http, now, started, prefixVars, addrVars, top, af, obs, hist>>

\* not ok: i--, and the loop ends at i = 0
P_Miss(p) ==
    /\ pc[p] = "p_check"
    /\ ~pf[p].found.ok
    /\ pf' = [pf EXCEPT ![p].i = @ - 1]
    /\ pc' = [pc EXCEPT ![p] = IF pf[p].i - 1 > 0 THEN "p_rlock" ELSE "p_acq"]
    /\ UNCHANGED <<mainVars, http, now, started, prefixVars, addrVars, top, af, obs, hist>>

\* cache.lock.Lock() before the delete
P_WLock(p) ==
    /\ pc[p] = "p_wlock"
    /\ CanLock(prefixLock)
    /\ prefixLock' = [prefixLock EXCEPT !.w = {p}]
    /\ pc' = [pc EXCEPT ![p] = "p_del"]
    /\ UNCHANGED <<mainVars, http, now, started, prefixData, prefixLimiter, addrVars, top, pf, af, obs, hist>>

P_DeleteKeepsLock(p) ==
    /\ pc[p] = "p_del"
    /\ LET prefix == IPNetString(pf[p].addr, pf[p].i)
       IN  /\ prefixData' = MapDelete(prefixData, prefix)
           /\ obs' = [obs EXCEPT ![p].evicted = @ \cup {prefix}]
    /\ pf' = [pf EXCEPT ![p].found = NotFound]
    /\ pc' = [pc EXCEPT ![p] = "p_acq"]
    /\ UNCHANGED <<mainVars, http, now, started, prefixLock, prefixLimiter, addrVars,
                   top, af, hist>>

\* delete(cache.Data, prefix); cache.lock.Unlock(); break
P_Delete(p) ==
    /\ pc[p] = "p_del"
    /\ LET prefix == IPNetString(pf[p].addr, pf[p].i)
       IN  /\ prefixData' = MapDelete(prefixData, prefix)
           /\ obs' = [obs EXCEPT ![p].evicted = @ \cup {prefix}]
    /\ prefixLock' = [prefixLock EXCEPT !.w = {}]
    /\ pf' = [pf EXCEPT ![p].found = NotFound]
    /\ pc' = [pc EXCEPT ![p] = "p_acq"]
    /\ UNCHANGED <<mainVars, http, now, started, prefixLimiter, addrVars, top, af, hist>>

\* cache.backend_limiter <- struct{}{}
P_Acquire(p) ==
    /\ pc[p] = "p_acq"
    /\ CanSend(prefixLimiter)
    /\ prefixLimiter' = ChanSend(prefixLimiter)
    /\ obs' = [obs EXCEPT ![p].called = TRUE]
    /\ pc' = [pc EXCEPT ![p] = "p_call1"]
    /\ UNCHANGED <<mainVars, http, now, started, prefixData, prefixLock, addrVars, top, pf, af, hist>>

\* LookupRipestat: err = callRipestat(ripeStatPrefixURL, addr, &out)
P_CallPrefixOverview(p, inp) ==
    /\ pc[p] = "p_call1"
    /\ \E resp \in inp.responses :
         LET r == callRipestat(resp, ZeroPrefixInfo)
         IN  /\ pf' = [pf EXCEPT ![p].out = r.out, ![p].err = r.err]
             /\ obs' = [obs EXCEPT ![p].berr = r.err,
                                   ![p].first = IF inp.trace THEN r.out ELSE @]
             /\ pc' = [pc EXCEPT ![p] = IF r.err = "" THEN "p_call2" ELSE "p_rel"]
    /\ UNCHANGED <<mainVars, http, now, started, prefixVars, addrVars, top, af, hist>>

\* What is remembered of the geolocation query that got resp
GeoHistory(resp, out) ==
    [called |-> TRUE, err |-> callRipestat(resp, out).err,
     prefix |-> IF callRipestat(resp, out).err = "" THEN ReportedPrefix(resp) ELSE ""]

P_CallGeolocChecked(p, inp) ==
    /\ pc[p] = "p_call2"
    /\ \E resp \in inp.responses :
         /\ pf' = [pf EXCEPT ![p].out = callRipestat(resp, pf[p].out).out,
                             ![p].err = callRipestat(resp, pf[p].out).err]
         /\ obs' = [obs EXCEPT ![p].geo =
                      IF inp.trace THEN GeoHistory(resp, pf[p].out) ELSE @]
    /\ pc' = [pc EXCEPT ![p] = "p_rel"]
    /\ UNCHANGED <<mainVars, http, now, started, prefixVars, addrVars, top, af, hist>>

\* LookupRipestat: if err == nil { callRipestat(ripeStatGeolocURL, addr, &out) }
P_CallGeoloc(p, inp) ==
    /\ pc[p] = "p_call2"
    /\ \E resp \in inp.responses :
         /\ pf' = [pf EXCEPT ![p].out = callRipestat(resp, pf[p].out).out]
         /\ obs' = [obs EXCEPT ![p].geo =
                      IF inp.trace THEN GeoHistory(resp, pf[p].out) ELSE @]
    /\ pc' = [pc EXCEPT ![p] = "p_rel"]
    /\ UNCHANGED <<mainVars, http, now, started, prefixVars, addrVars, top, af, hist>>

P_ReleaseFailLeaks(p) ==
    /\ pc[p] = "p_rel"
    /\ pf[p].err # ""
    /\ PrefixReturn(p, pf[p].out, pf[p].err)
    /\ UNCHANGED <<mainVars, http, now, started, prefixVars, addrVars, top>>

P_ReleaseFailCaches(p) ==
    /\ pc[p] = "p_rel"
    /\ pf[p].err # ""
    /\ prefixLimiter' = ChanRecv(prefixLimiter)
    /\ pf' = [pf EXCEPT ![p].err = ""]
    /\ pc' = [pc EXCEPT ![p] = "p_stamp"]
    /\ UNCHANGED <<mainVars, http, now, started, prefixData, prefixLock, addrVars, top, af, obs, hist>>

\* _ = <-cache.backend_limiter; if err != nil { return }
P_ReleaseFail(p) ==
    /\ pc[p] = "p_rel"
    /\ pf[p].err # ""
    /\ prefixLimiter' = ChanRecv(prefixLimiter)
    /\ PrefixReturn(p, pf[p].out, pf[p].err)
    /\ UNCHANGED <<mainVars, http, now, started, prefixData, prefixLock, addrVars, top>>

\* _ = <-cache.backend_limiter; err == nil
P_ReleaseOk(p) ==
    /\ pc[p] = "p_rel"
    /\ pf[p].err = ""
    /\ prefixLimiter' = ChanRecv(prefixLimiter)
    /\ pc' = [pc EXCEPT ![p] = "p_stamp"]
    /\ UNCHANGED <<mainVars, http, now, started, prefixData, prefixLock, addrVars, top, pf, af, obs, hist>>

\* out.Cached = time.Now().UTC()
P_Stamp(p) ==
    /\ pc[p] = "p_stamp"
    /\ pf' = [pf EXCEPT ![p].out.Cached = now]
    /\ pc' = [pc EXCEPT ![p] = "p_ilock"]
    /\ UNCHANGED <<mainVars, http, now, started, prefixVars, addrVars, top, af, obs, hist>>

\* cache.lock.Lock() before the insert
P_ILock(p) ==
    /\ pc[p] = "p_ilock"
    /\ CanLock(prefixLock)
    /\ prefixLock' = [prefixLock EXCEPT !.w = {p}]
    /\ pc' = [pc EXCEPT ![p] = "p_ins"]
    /\ UNCHANGED <<mainVars, http, now, started, prefixData, prefixLimiter, addrVars, top, pf, af, obs, hist>>

P_InsertDropsPrecached(p) ==
    /\ pc[p] = "p_ins"
    /\ prefixData' = IF top[p] = "address" THEN prefixData
                     ELSE MapPut(prefixData, pf[p].out.Prefix, pf[p].out)
    /\ prefixLock' = [prefixLock EXCEPT !.w = {}]
    /\ PrefixReturn(p, pf[p].out, "")
    /\ UNCHANGED <<mainVars, http, now, started, prefixLimiter, addrVars, top>>

P_InsertKeyedByProbed(p) ==
    /\ pc[p] = "p_ins"
    /\ prefixData' = MapPut(prefixData,
                            IPNetString(pf[p].addr, prefixlen(pf[p].addr)), pf[p].out)
    /\ prefixLock' = [prefixLock EXCEPT !.w = {}]
    /\ PrefixReturn(p, pf[p].out, "")
    /\ UNCHANGED <<mainVars, http, now, started, prefixLimiter, addrVars, top>>

P_InsertIfAbsent(p) ==
    /\ pc[p] = "p_ins"
    /\ prefixData' = IF pf[p].out.Prefix \in DOMAIN prefixData THEN prefixData
                     ELSE MapPut(prefixData, pf[p].out.Prefix, pf[p].out)
    /\ prefixLock' = [prefixLock EXCEPT !.w = {}]
    /\ PrefixReturn(p, pf[p].out, "")
    /\ UNCHANGED <<mainVars, http, now, started, prefixLimiter, addrVars, top>>

\* cache.Data[out.Prefix] = out; cache.lock.Unlock(); return
P_Insert(p) ==
    /\ pc[p] = "p_ins"
    /\ prefixData' = MapPut(prefixData, pf[p].out.Prefix, pf[p].out)
    /\ prefixLock' = [prefixLock EXCEPT !.w = {}]
    /\ PrefixReturn(p, pf[p].out, "")
    /\ UNCHANGED <<mainVars, http, now, started, prefixLimiter, addrVars, top>>

P_DoneHidesError(p) ==
    /\ pc[p] = "p_ret"
    /\ http' = [http EXCEPT ![p] = [@ EXCEPT !.status = StatusOK, !.prefix = pf[p].out]]
    /\ pc' = [pc EXCEPT ![p] = "h_done"]
    /\ UNCHANGED <<mainVars, now, started, prefixVars, addrVars, top, pf, af, obs, hist>>

\* PrefixCache.LookupServer writes its answer: status 500 and {Error} when
\* Lookup returned an error, the record (status 200) otherwise
P_Done(p) ==
    /\ pc[p] = "p_ret"
    /\ http' = [http EXCEPT ![p] =
                 IF pf[p].err # ""
                 THEN [@ EXCEPT !.status = StatusInternalServerError, !.Error = pf[p].err]
                 ELSE [@ EXCEPT !.status = StatusOK, !.prefix = pf[p].out]]
    /\ pc' = [pc EXCEPT ![p] = "h_done"]
    /\ UNCHANGED <<mainVars, now, started, prefixVars, addrVars, top, pf, af, obs, hist>>

\* The handler returns; the goroutine of the request ends
H_Return(p) ==
    /\ pc[p] = "h_done"
    /\ pc' = [pc EXCEPT ![p] = "idle"]
    /\ top' = [top EXCEPT ![p] = ""]
    /\ pf' = [pf EXCEPT ![p] = ZeroPF]
    /\ af' = [af EXCEPT ![p] = ZeroAF]
    /\ obs' = [obs EXCEPT ![p] = ZeroObs]
    /\ http' = [http EXCEPT ![p] = NoResponse]
    /\ UNCHANGED <<mainVars, now, started, prefixVars, addrVars, hist>>

\* ------------------------------------------------- AddressCache.Lookup
\* A return of AddressCache.Lookup with out
AddressReturn(p, o) ==
    /\ pc' = [pc EXCEPT ![p] = "a_ret"]
    /\ af' = [af EXCEPT ![p] = [ZeroAF EXCEPT !.name = af[p].name, !.out = o,
                                              !.addrs = af[p].addrs,
                                              !.err = af[p].err]]

\* The front end calls AddressCache.Lookup(n)  (LookupServer)
StartAddress(p, inp) ==
    /\ mainpc = "serving"
    /\ pc[p] = "idle"
    /\ started < inp.lookups
    /\ started' = started + 1
    /\ top' = [top EXCEPT ![p] = "address"]
    /\ \E n \in inp.names :
          IF Len(n) = 0
          THEN /\ http' = [http EXCEPT ![p] =
                             [NoResponse EXCEPT !.query = n, !.status = StatusBadRequest]]
               /\ pc' = [pc EXCEPT ![p] = "h_done"]
               /\ UNCHANGED <<af, obs>>
          ELSE /\ http' = [http EXCEPT ![p] = [NoResponse EXCEPT !.query = n]]
               /\ af' = [af EXCEPT ![p] = [ZeroAF EXCEPT !.name = n]]
               /\ obs' = [obs EXCEPT ![p] =
                            IF inp.history
                            THEN [ZeroObs EXCEPT !.asnap = addrData, !.atstart = now,
                                                 !.psnap = prefixData]
                            ELSE ZeroObs]
               /\ pc' = [pc EXCEPT ![p] = "a_rlock"]
    /\ UNCHANGED <<mainVars, now, prefixVars, addrVars, pf, hist>>

\* cache.lock.RLock()
A_RLock(p) ==
    /\ pc[p] = "a_rlock"
    /\ CanRLock(addrLock)
    /\ addrLock' = [addrLock EXCEPT !.r = @ \cup {p}]
    /\ pc' = [pc EXCEPT ![p] = "a_read"]
    /\ UNCHANGED <<mainVars, http, now, started, prefixVars, addrData, addrLimiter, top, pf, af, obs, hist>>

A_ReadKeepsLock(p) ==
    /\ pc[p] = "a_read"
    /\ af' = [af EXCEPT
                ![p].ok = (af[p].name \in DOMAIN addrData),
                ![p].out = IF af[p].name \in DOMAIN addrData
                           THEN addrData[af[p].name] ELSE ZeroAddressInfo]
    /\ pc' = [pc EXCEPT ![p] = "a_check"]
    /\ UNCHANGED <<mainVars, http, now, started, prefixVars, addrVars, top, pf, obs, hist>>

\* out, ok = cache.Data[name]; cache.lock.RUnlock()
A_Read(p) ==
    /\ pc[p] = "a_read"
    /\ af' = [af EXCEPT
                ![p].ok = (af[p].name \in DOMAIN addrData),
                ![p].out = IF af[p].name \in DOMAIN addrData
                           THEN addrData[af[p].name] ELSE ZeroAddressInfo]
    /\ addrLock' = [addrLock EXCEPT !.r = @ \ {p}]
    /\ pc' = [pc EXCEPT ![p] = "a_check"]
    /\ UNCHANGED <<mainVars, http, now, started, prefixVars, addrData, addrLimiter, top, pf, obs, hist>>

A_HitRestamps(p) ==
    /\ pc[p] = "a_check"
    /\ af[p].ok
    /\ ~AddrExpired(af[p].out.Cached, now)
    /\ addrData' = IF af[p].name \in DOMAIN addrData
                   THEN [addrData EXCEPT ![af[p].name].Cached = now]
                   ELSE addrData
    /\ AddressReturn(p, af[p].out)
    /\ UNCHANGED <<mainVars, http, now, started, prefixVars, addrLock, addrLimiter,
                   top, pf, obs, hist>>

\* if ok, not expired: return
A_Hit(p) ==
    /\ pc[p] = "a_check"
    /\ af[p].ok
    /\ ~AddrExpired(af[p].out.Cached, now)
    /\ AddressReturn(p, af[p].out)
    /\ UNCHANGED <<mainVars, http, now, started, prefixVars, addrVars, top, pf, obs, hist>>

\* if ok, expired: go and delete the entry
A_Expired(p) ==
    /\ pc[p] = "a_check"
    /\ af[p].ok
    /\ AddrExpired(af[p].out.Cached, now)
    /\ pc' = [pc EXCEPT ![p] = "a_wlock"]
    /\ UNCHANGED <<mainVars, http, now, started, prefixVars, addrVars, top, pf, af, obs, hist>>

\* not ok: cache miss
A_Miss(p) ==
    /\ pc[p] = "a_check"
    /\ ~af[p].ok
    /\ pc' = [pc EXCEPT ![p] = "a_acq"]
    /\ UNCHANGED <<mainVars, http, now, started, prefixVars, addrVars, top, pf, af, obs, hist>>

\* cache.lock.Lock() before the delete
A_WLock(p) ==
    /\ pc[p] = "a_wlock"
    /\ CanLock(addrLock)
    /\ addrLock' = [addrLock EXCEPT !.w = {p}]
    /\ pc' = [pc EXCEPT ![p] = "a_del"]
    /\ UNCHANGED <<mainVars, http, now, started, prefixVars, addrData, addrLimiter, top, pf, af, obs, hist>>

\* delete(cache.Data, name); cache.lock.Unlock()
A_Delete(p) ==
    /\ pc[p] = "a_del"
    /\ addrData' = MapDelete(addrData, af[p].name)
    /\ addrLock' = [addrLock EXCEPT !.w = {}]
    /\ obs' = [obs EXCEPT ![p].aevicted = TRUE]
    /\ pc' = [pc EXCEPT ![p] = "a_acq"]
    /\ UNCHANGED <<mainVars, http, now, started, prefixVars, addrLimiter, top, pf, af, hist>>

A_AcquireSharedLimiter(p) ==
    /\ pc[p] = "a_acq"
    /\ CanSend(prefixLimiter)
    /\ prefixLimiter' = ChanSend(prefixLimiter)
    /\ af' = [af EXCEPT ![p].out.Name = af[p].name]
    /\ pc' = [pc EXCEPT ![p] = "a_resolve"]
    /\ UNCHANGED <<mainVars, http, now, started, prefixData, prefixLock, addrVars,
                   top, pf, obs, hist>>

\* out.Name = name; cache.backend_limiter <- struct{}{}
A_Acquire(p) ==
    /\ pc[p] = "a_acq"
    /\ CanSend(addrLimiter)
    /\ addrLimiter' = ChanSend(addrLimiter)
    /\ af' = [af EXCEPT ![p].out.Name = af[p].name]
    /\ pc' = [pc EXCEPT ![p] = "a_resolve"]
    /\ UNCHANGED <<mainVars, http, now, started, prefixVars, addrData, addrLock, top, pf, obs, hist>>

\* addrs, err := net.LookupIP(name)
A_Resolve(p, inp) ==
    /\ pc[p] = "a_resolve"
    /\ \E res \in inp.resolutions :
         /\ af' = [af EXCEPT ![p].addrs = res.addrs, ![p].err = res.err]
         /\ obs' = [obs EXCEPT ![p].resolved = TRUE, ![p].rerr = res.err]
    /\ pc' = [pc EXCEPT ![p] = "a_rel"]
    /\ UNCHANGED <<mainVars, http, now, started, prefixVars, addrVars, top, pf, hist>>

A_ReleaseOkKeepsSlot(p) ==
    /\ pc[p] = "a_rel"
    /\ af[p].err = ""
    /\ af' = [af EXCEPT ![p].out.Addresses = af[p].addrs, ![p].idx = 1]
    /\ pc' = [pc EXCEPT ![p] = "a_loop"]
    /\ UNCHANGED <<mainVars, http, now, started, prefixVars, addrVars, top, pf, obs, hist>>

\* _ = <-cache.backend_limiter; err == nil: out.Addresses = addrs
A_ReleaseOk(p) ==
    /\ pc[p] = "a_rel"
    /\ af[p].err = ""
    /\ addrLimiter' = ChanRecv(addrLimiter)
    /\ af' = [af EXCEPT ![p].out.Addresses = af[p].addrs, ![p].idx = 1]
    /\ pc' = [pc EXCEPT ![p] = "a_loop"]
    /\ UNCHANGED <<mainVars, http, now, started, prefixVars, addrData, addrLock, top, pf, obs, hist>>

A_ReleaseFailKeepsOld(p) ==
    /\ pc[p] = "a_rel"
    /\ af[p].err # ""
    /\ addrLimiter' = ChanRecv(addrLimiter)
    /\ af' = [af EXCEPT ![p].err = ""]
    /\ pc' = [pc EXCEPT ![p] = "a_stamp"]
    /\ UNCHANGED <<mainVars, http, now, started, prefixVars, addrData, addrLock, top, pf, obs, hist>>

\* _ = <-cache.backend_limiter; err != nil: out.Addresses = make([]net.IP, 0)
A_ReleaseFail(p) ==
    /\ pc[p] = "a_rel"
    /\ af[p].err # ""
    /\ addrLimiter' = ChanRecv(addrLimiter)
    /\ af' = [af EXCEPT ![p].out.Addresses = <<>>, ![p].err = ""]
    /\ pc' = [pc EXCEPT ![p] = "a_stamp"]
    /\ UNCHANGED <<mainVars, http, now, started, prefixVars, addrData, addrLock, top, pf, obs, hist>>

\* for _, addr := range addrs { _, _ = cache.prefixes.Lookup(addr) }
A_Precache(p, inp) ==
    /\ pc[p] = "a_loop"
    /\ af[p].idx <= Len(af[p].addrs)
    /\ EnterPrefixLookup(p, af[p].addrs[af[p].idx], inp)
    /\ pc' = [pc EXCEPT ![p] = "p_rlock"]
    /\ UNCHANGED <<mainVars, http, now, started, prefixVars, addrVars, top, af, hist>>

\* the range loop is over
A_LoopEnd(p) ==
    /\ pc[p] = "a_loop"
    /\ af[p].idx > Len(af[p].addrs)
    /\ pc' = [pc EXCEPT ![p] = "a_stamp"]
    /\ UNCHANGED <<mainVars, http, now, started, prefixVars, addrVars, top, pf, af, obs, hist>>

\* out.Cached = time.Now().UTC()
A_Stamp(p) ==
    /\ pc[p] = "a_stamp"
    /\ af' = [af EXCEPT ![p].out.Cached = now]
    /\ pc' = [pc EXCEPT ![p] = "a_ilock"]
    /\ UNCHANGED <<mainVars, http, now, started, prefixVars, addrVars, top, pf, obs, hist>>

\* cache.lock.Lock() before the insert
A_ILock(p) ==
    /\ pc[p] = "a_ilock"
    /\ CanLock(addrLock)
    /\ addrLock' = [addrLock EXCEPT !.w = {p}]
    /\ pc' = [pc EXCEPT ![p] = "a_ins"]
    /\ UNCHANGED <<mainVars, http, now, started, prefixVars, addrData, addrLimiter, top, pf, af, obs, hist>>

\* cache.Data[out.Name] = out; cache.lock.Unlock(); return
A_Insert(p) ==
    /\ pc[p] = "a_ins"
    /\ addrData' = MapPut(addrData, af[p].out.Name, af[p].out)
    /\ addrLock' = [addrLock EXCEPT !.w = {}]
    /\ AddressReturn(p, af[p].out)
    /\ hist' = [a \in LookupAddrs |->
                  IF /\ obs[p].rerr = ""
                     /\ ~obs[p].perr
                     /\ obs[p].pcalls = Len(af[p].addrs)
                     /\ \E j \in 1..Len(af[p].addrs) : af[p].addrs[j] = a
                  THEN [hist[a] EXCEPT !.warm = TRUE]
                  ELSE hist[a]]
    /\ UNCHANGED <<mainVars, http, now, started, prefixVars, addrLimiter, top, pf, obs>>

\* AddressCache.LookupServer writes the record (status 200)
A_Done(p) ==
    /\ pc[p] = "a_ret"
    /\ http' = [http EXCEPT ![p] = [@ EXCEPT !.status = StatusOK, !.address = af[p].out]]
    /\ pc' = [pc EXCEPT ![p] = "h_done"]
    /\ UNCHANGED <<mainVars, now, started, prefixVars, addrVars, top, pf, af, obs, hist>>

\* ------------------------------------------------------------------ main
\* main: storage.undump(infile) when a backing file is given and opens;
\* log.Fatal when it does not decode.  The decoder sets the members the
\* document has and leaves the others as newStorage made them.
Main_Undump(inp) ==
    /\ mainpc = "start"
    /\ \E f \in inp.files :
          /\ file' = f
          /\ IF ~f.present
             THEN /\ mainpc' = "check"
                  /\ UNCHANGED <<storage, prefixData, addrData>>
             ELSE IF ~f.decodes
             THEN /\ mainpc' = "fatal"
                  /\ UNCHANGED <<storage, prefixData, addrData>>
             ELSE /\ mainpc' = "check"
                  /\ storage' = [storage EXCEPT !.Version =
                                     IF f.hasVersion THEN f.Version ELSE @]
                  /\ prefixData' = f.Prefixes
                  /\ addrData' = f.Addresses
    /\ UNCHANGED <<http, now, started, prefixLock, prefixLimiter, addrLock,
                   addrLimiter, pc, top, pf, af, obs, hist>>

Main_CheckVersionSkipped ==
    /\ mainpc = "check"
    /\ mainpc' = "serving"
    /\ UNCHANGED <<storage, file, http, now, started, prefixVars, addrVars,
                   pc, top, pf, af, obs, hist>>

\* main: log.Fatalf on a storage version mismatch, else the handlers are
\* registered and the server listens
Main_CheckVersion ==
    /\ mainpc = "check"
    /\ mainpc' = IF storage.Version # canidStorageVersion THEN "fatal" ELSE "serving"
    /\ UNCHANGED <<storage, file, http, now, started, prefixVars, addrVars,
                   pc, top, pf, af, obs, hist>>

MainStep(inp) == Main_Undump(inp) \/ Main_CheckVersion

\* ----------------------------------------------------------------- clock
TickSweeps ==
    /\ now < MaxTime
    /\ now' = now + 1
    /\ prefixData' = [k \in {j \in DOMAIN prefixData :
                                now + 1 - prefixData[j].Cached <= Expiry}
                        |-> prefixData[k]]
    /\ UNCHANGED <<mainVars, http, started, prefixLock, prefixLimiter, addrVars,
                   pc, top, pf, af, obs, hist>>

\* A second passes
Tick ==
    /\ now < MaxTime
    /\ now' = now + 1
    /\ UNCHANGED <<mainVars, http, started, prefixVars, addrVars, pc, top, pf, af, obs, hist>>

\* --------------------------------------------------------- specifications
PrefixStep(p, inp) ==
    \/ StartPrefix(p, inp)
    \/ P_RLock(p)
    \/ P_Read(p)
    \/ P_Hit(p)
    \/ P_Expired(p)
    \/ P_Miss(p)
    \/ P_WLock(p)
    \/ P_Delete(p)
    \/ P_Acquire(p)
    \/ P_CallPrefixOverview(p, inp)
    \/ P_CallGeoloc(p, inp)
    \/ P_ReleaseFail(p)
    \/ P_ReleaseOk(p)
    \/ P_Stamp(p)
    \/ P_ILock(p)
    \/ P_Insert(p)
    \/ P_Done(p)
    \/ H_Return(p)

AddressStep(p, inp) ==
    \/ StartAddress(p, inp)
    \/ A_RLock(p)
    \/ A_Read(p)
    \/ A_Hit(p)
    \/ A_Expired(p)
    \/ A_Miss(p)
    \/ A_WLock(p)
    \/ A_Delete(p)
    \/ A_Acquire(p)
    \/ A_Resolve(p, inp)
    \/ A_ReleaseOk(p)
    \/ A_ReleaseFail(p)
    \/ A_Precache(p, inp)
    \/ A_LoopEnd(p)
    \/ A_Stamp(p)
    \/ A_ILock(p)
    \/ A_Insert(p)
    \/ A_Done(p)
    \/ H_Return(p)

Step(p, inp) == PrefixStep(p, inp) \/ AddressStep(p, inp)

\* What the front end asks and what the backend and the resolver may answer
\* when goroutines run concurrently
Inputs ==
    [lookups |-> MaxLookups,
     history |-> FALSE,
     trace |-> FALSE,
     files |-> {NoFile},
     queries |-> {IPString(AddrA), IPString(AddrB)},
     names |-> {"example.test"},
     responses |->
        OkDocs({IPNetString(AddrA, prefixlen(AddrA))}, {IPNetString(AddrA, 1)},
               {<<1>>}, {<<>>})
        \cup {FailedDoc("", "error")},
     resolutions |->
        { [err |-> "no such host", addrs |-> <<>>],
          [err |-> "", addrs |-> <<AddrA>>] }]

\* Goroutines run concurrently, one per HTTP request
Next == MainStep(Inputs) \/ (\E p \in Procs : Step(p, Inputs)) \/ Tick

Spec == Init /\ [][Next]_vars

\* What the front end asks and what the backend and the resolver may answer
\* when the requests follow each other
SeqInputs ==
    [lookups |-> SeqLookups,
     history |-> TRUE,
     trace |-> FALSE,
     files |-> {NoFile},
     queries |-> {IPString(a) : a \in LookupAddrs},
     names |-> {"example.test"},
     responses |->
        OkDocs({IPNetString(AddrA, prefixlen(AddrA)),
                IPNetString(AddrA, addrbits(AddrA)),
                IPNetString(AddrD, prefixlen(AddrD))},
               {IPNetString(AddrA, 1), IPNetString(AddrA, 0)},
               {<<1>>}, {<<>>})
        \cup {FailedDoc("", "error")},
     resolutions |->
        { [err |-> "no such host", addrs |-> <<>>],
          [err |-> "", addrs |-> <<AddrA>>],
          [err |-> "", addrs |-> <<AddrA, AddrC>>] }]

\* One request at a time: the lookups follow each other
NextSeq == MainStep(SeqInputs) \/ (\E p \in SeqProcs : Step(p, SeqInputs)) \/ Tick

SpecSeq == Init /\ [][NextSeq]_vars

\* What the backend may answer to the lookups of one address that follow
\* each other: every shape of document callRipestat tells apart
BackendInputs ==
    [lookups |-> SeqLookups,
     history |-> TRUE,
     trace |-> TRUE,
     files |-> {NoFile},
     queries |-> {IPString(AddrA)},
     names |-> {},
     responses |->
        OkDocs({IPNetString(AddrA, prefixlen(AddrA)), ""}, {IPNetString(AddrA, 1)},
               {<<>>, <<1>>, <<2, 1>>}, {<<>>, <<"CH">>, <<"DE", "CH">>})
        \cup FailedDocs,
     resolutions |-> {}]

NextBackend ==
    MainStep(BackendInputs) \/ (\E p \in SeqProcs : PrefixStep(p, BackendInputs)) \/ Tick

SpecBackend == Init /\ [][NextBackend]_vars

\* A record of a previous run for AddrA, under the prefix its descent
\* probes first, cached at time t
DumpedPrefix(t) ==
    [Prefix |-> IPNetString(AddrA, prefixlen(AddrA)), ASN |-> 1,
     CountryCode |-> "CH", Cached |-> t]

\* A dump of a previous run: one prefix record and one address record
\* cached at time t, with a Version member v when hasVersion
DumpFile(hasVersion, v, t) ==
    [present |-> TRUE, decodes |-> TRUE, hasVersion |-> hasVersion, Version |-> v,
     Prefixes |-> MapPut(EmptyMap, DumpedPrefix(t).Prefix, DumpedPrefix(t)),
     Addresses |-> MapPut(EmptyMap, "example.test",
                          [Name |-> "example.test", Addresses |-> <<AddrA>>,
                           Cached |-> t])]

\* A file that is not a JSON document
GarbageFile == [NoFile EXCEPT !.present = TRUE]

\* The backing files main may find, the requests the front end may get
\* (well-formed or not) and the answers of the backend and the resolver
ServerInputs ==
    [lookups |-> SeqLookups,
     history |-> TRUE,
     trace |-> FALSE,
     files |-> {NoFile, GarbageFile,
                DumpFile(TRUE, canidStorageVersion, 0),
                DumpFile(TRUE, canidStorageVersion, 0 - (Expiry + 1)),
                DumpFile(TRUE, canidStorageVersion + 1, 0),
                DumpFile(TRUE, 0, 0),
                DumpFile(FALSE, 0, 0)},
     queries |-> {IPString(AddrA), IPString(AddrC), "", "example.test"},
     names |-> {"example.test", ""},
     responses |->
        OkDocs({IPNetString(AddrA, prefixlen(AddrA))}, {IPNetString(AddrA, 1)},
               {<<1>>}, {<<"CH">>})
        \cup FailedDocs,
     resolutions |->
        { [err |-> "no such host", addrs |-> <<>>],
          [err |-> "", addrs |-> <<AddrA>>] }]

\* main starts, then serves one request at a time
NextServer ==
    MainStep(ServerInputs) \/ (\E p \in SeqProcs : Step(p, ServerInputs)) \/ Tick

SpecServer == Init /\ [][NextServer]_vars

\* ------------------------------------------------------------ properties
\* A goroutine is between the send to and the receive from the prefix
\* cache's limiter, that is, inside LookupRipestat
InBackend(p) == pc[p] \in {"p_call1", "p_call2", "p_rel"}

\* A goroutine is between the send to and the receive from the address
\* cache's limiter, that is, inside net.LookupIP
InResolver(p) == pc[p] \in {"a_resolve", "a_rel"}

\* C1: with limiter capacity Concurrency and any number of concurrent
\* PrefixCache.Lookup calls that miss, at most Concurrency of them are
\* inside LookupRipestat in every reachable state.
C1_AtMostNInBackend == Cardinality({p \in Procs : InBackend(p)}) <= Concurrency

\* The limiter is full and another miss waits for a slot.
C1_Witness ==
    /\ Cardinality({p \in Procs : InBackend(p)}) = Concurrency
    /\ \E p \in Procs : pc[p] = "p_acq"

\* C2: every limiter slot is released when the backend call returns, whether
\* it succeeded or failed: whenever no lookup is inside a backend call, the
\* limiter of each cache holds no slot.
C2_NoSlotLeaks ==
    /\ (\A p \in Procs : ~InBackend(p)) => prefixLimiter = 0
    /\ (\A p \in Procs : ~InResolver(p)) => addrLimiter = 0

\* A prefix lookup has returned the backend's error and an address lookup
\* has returned after a failed resolution, and nobody is inside a backend.
C2_Witness ==
    /\ \A p \in Procs : ~InBackend(p) /\ ~InResolver(p)
    /\ \E p \in Procs : pc[p] = "p_ret" /\ pf[p].err # ""
    /\ \E p \in Procs : pc[p] = "a_ret" /\ obs[p].rerr # ""

\* The prefixes the descent of Lookup(a) probes, by length
ProbedLens(a) == 1..prefixlen(a)

\* The probed lengths of a at which the map m holds an entry
CachedLens(m, a) == {L \in ProbedLens(a) : IPNetString(a, L) \in DOMAIN m}

\* k is the key of the first entry the descent of Lookup(a) meets in m: a
\* probed prefix of a, with no entry at any longer probed prefix of a
FirstMet(m, a, k) ==
    \E L \in CachedLens(m, a) :
        /\ k = IPNetString(a, L)
        /\ \A M \in CachedLens(m, a) : M <= L

\* k is a CIDR prefix that contains a, of whatever length
Contains(k, a) == \E L \in 0..addrbits(a) : k = IPNetString(a, L)

\* The record was cached at most Expiry seconds ago
Fresh(rec) == now - rec.Cached <= Expiry

\* PrefixCache.Lookup has returned to the front end a hit on record r
ReturnedHit(p, r) ==
    /\ pc[p] = "p_ret"
    /\ pf[p].err = ""
    /\ pf[p].out = r
    /\ ~obs[p].called

\* The record that the last backend call of a Lookup(a) cached was, when p's
\* Lookup(a) began, still in the map under its prefix, and is still fresh
\* now that the Lookup has returned
FetchedAndKept(p) ==
    LET h == obs[p].hsnap
    IN  /\ pc[p] = "p_ret"
        /\ h.set
        /\ h.rec.Prefix \in DOMAIN obs[p].snap
        /\ obs[p].snap[h.rec.Prefix] = h.rec
        /\ Fresh(h.rec)

\* C3 as stated: after a Lookup(a) that cached a record through the backend,
\* every later sequential Lookup(a) made while the record is unexpired
\* returns that record without a backend call, whatever prefix the backend
\* reported.
C3_AnyReportedPrefix ==
    \A p \in Procs : FetchedAndKept(p) => ReturnedHit(p, obs[p].hsnap.rec)

\* C3 as amended: the same, for a record whose reported prefix is the first
\* entry the descent of a meets (a probed prefix of a, of length 1 to the
\* starting length, with no entry cached at a longer probed prefix of a).
C3_RepeatedLookupHits ==
    \A p \in Procs :
        (FetchedAndKept(p) /\ FirstMet(obs[p].snap, pf[p].addr, obs[p].hsnap.rec.Prefix))
            => ReturnedHit(p, obs[p].hsnap.rec)

\* A second Lookup(a) has returned the record the first one fetched.
C3_Witness ==
    \E p \in Procs :
        /\ FetchedAndKept(p)
        /\ FirstMet(obs[p].snap, pf[p].addr, obs[p].hsnap.rec.Prefix)
        /\ ReturnedHit(p, obs[p].hsnap.rec)

\* p's Lookup ran within the second t
LookupAt(p, t) == obs[p].tstart = t /\ now = t

\* p's Lookup evicted the entry under k and went to the backend
EvictedAndRefetched(p, k) == k \in obs[p].evicted /\ obs[p].called

\* C4 as stated: for a record cached at t0 under a prefix that contains the
\* address, a Lookup at t0+Expiry-1 returns it without a backend call and a
\* Lookup at t0+Expiry+1 removes it and calls the backend.
C4_AnyCoveringRecord ==
    \A p \in Procs :
        pc[p] = "p_ret" =>
            \A k \in DOMAIN obs[p].snap :
                LET r == obs[p].snap[k]
                IN  Contains(k, pf[p].addr) =>
                        /\ LookupAt(p, r.Cached + Expiry - 1) => ReturnedHit(p, r)
                        /\ obs[p].tstart = r.Cached + Expiry + 1 => EvictedAndRefetched(p, k)

\* C4 as amended: the same, for the record that is the first entry the
\* descent of the address meets.
C4_ExpiryBoundary ==
    \A p \in Procs :
        pc[p] = "p_ret" =>
            \A k \in DOMAIN obs[p].snap :
                LET r == obs[p].snap[k]
                IN  FirstMet(obs[p].snap, pf[p].addr, k) =>
                        /\ LookupAt(p, r.Cached + Expiry - 1) => ReturnedHit(p, r)
                        /\ obs[p].tstart = r.Cached + Expiry + 1 => EvictedAndRefetched(p, k)

\* A Lookup one second after the expiry has evicted the record and fetched again.
C4_Witness ==
    \E p \in Procs :
        /\ pc[p] = "p_ret"
        /\ \E k \in DOMAIN obs[p].snap :
              /\ FirstMet(obs[p].snap, pf[p].addr, k)
              /\ obs[p].tstart = obs[p].snap[k].Cached + Expiry + 1
              /\ EvictedAndRefetched(p, k)
              /\ k \notin DOMAIN prefixData \/ prefixData[k] # obs[p].snap[k]

\* k is the canonical CIDR string of a prefix of a length from lo to the
\* starting length of its family
PrefixOfLen(k, lo) ==
    \E x \in LookupAddrs : \E L \in lo..prefixlen(x) : k = IPNetString(x, L)

\* When p's Lookup began the map held the single entry k, which is still
\* fresh now that the Lookup has returned
SingleFreshEntry(p, k) ==
    /\ pc[p] = "p_ret"
    /\ DOMAIN obs[p].snap = {k}
    /\ obs[p].snap[k].Prefix = k
    /\ Fresh(obs[p].snap[k])

\* The lookup of an address inside k hits, that of one outside calls the backend
HitsInsideMissesOutside(p, k) ==
    IF Contains(k, pf[p].addr)
    THEN ReturnedHit(p, obs[p].snap[k])
    ELSE obs[p].called

\* C5 as stated: with a single unexpired entry, for a prefix of length at
\* most the starting length, the Lookup of an address inside the prefix
\* returns the entry without a backend call and the Lookup of an address
\* outside it calls the backend.
C5_LengthAtMostStart ==
    \A p \in Procs :
        \A k \in DOMAIN obs[p].snap :
            (SingleFreshEntry(p, k) /\ PrefixOfLen(k, 0)) => HitsInsideMissesOutside(p, k)

\* C5 as amended: the same, for a prefix of length from 1 to the starting
\* length.
C5_LongestMatch ==
    \A p \in Procs :
        \A k \in DOMAIN obs[p].snap :
            (SingleFreshEntry(p, k) /\ PrefixOfLen(k, 1)) => HitsInsideMissesOutside(p, k)

\* An address that no Lookup fetched has hit the entry another address cached.
C5_Witness ==
    \E p \in Procs :
        \E k \in DOMAIN obs[p].snap :
            /\ SingleFreshEntry(p, k)
            /\ PrefixOfLen(k, 1)
            /\ Contains(k, pf[p].addr)
            /\ ~hist[pf[p].addr].set
            /\ ReturnedHit(p, obs[p].snap[k])

\* C6: when the prefix-overview query fails (transport error, undecodable
\* response, status other than ok), PrefixCache.Lookup returns that error
\* and inserts no entry: every entry of the map was there, unchanged, when
\* the Lookup began.
C6_BackendErrorSurfaced ==
    \A p \in Procs :
        (pc[p] = "p_ret" /\ obs[p].berr # "") =>
            /\ pf[p].err = obs[p].berr
            /\ \A k \in DOMAIN prefixData :
                  k \in DOMAIN obs[p].snap /\ prefixData[k] = obs[p].snap[k]

\* A Lookup has returned the error of a response with a status other than ok.
C6_Witness ==
    \E p \in Procs :
        /\ pc[p] = "p_ret"
        /\ obs[p].berr = "RIPEstat request failed with status error"
        /\ pf[p].err = obs[p].berr

\* The address record was cached at most Expiry seconds ago
FreshAddr(rec) == now - rec.Cached <= Expiry

\* C7: when the resolution fails, AddressCache.Lookup(name) returns no
\* error and a record with no addresses, stored under name; a later Lookup
\* of the name within the expiry window returns the stored empty record and
\* does not call the resolver.
C7_FailedResolutionCached ==
    \A p \in Procs :
        pc[p] = "a_ret" =>
            /\ (obs[p].resolved /\ obs[p].rerr # "") =>
                  /\ af[p].err = ""
                  /\ af[p].out.Name = af[p].name
                  /\ af[p].out.Addresses = <<>>
                  /\ af[p].name \in DOMAIN addrData
                  /\ addrData[af[p].name] = af[p].out
            /\ ( /\ af[p].name \in DOMAIN obs[p].asnap
                 /\ obs[p].asnap[af[p].name].Addresses = <<>>
                 /\ FreshAddr(obs[p].asnap[af[p].name]) ) =>
                  /\ af[p].out = obs[p].asnap[af[p].name]
                  /\ ~obs[p].resolved

\* A later Lookup has returned the empty record that a failed resolution cached.
C7_Witness ==
    \E p \in Procs :
        /\ pc[p] = "a_ret"
        /\ ~obs[p].resolved
        /\ af[p].name \in DOMAIN obs[p].asnap
        /\ af[p].out = obs[p].asnap[af[p].name]
        /\ af[p].out.Addresses = <<>>

\* When p's direct Lookup(a) began, the last backend call for a had been made
\* by the precaching of an AddressCache.Lookup whose resolution succeeded and
\* whose precaching lookups all went to the backend and succeeded; the
\* record it cached is still fresh now that the Lookup has returned
Precached(p) ==
    LET h == obs[p].hsnap
    IN  /\ pc[p] = "p_ret"
        /\ h.set
        /\ h.precache
        /\ h.warm
        /\ Fresh(h.rec)

\* k is one of the prefixes the descent of Lookup(a) probes
ProbedPrefix(a, k) == \E L \in ProbedLens(a) : k = IPNetString(a, L)

\* No entry of m at a probed prefix of a longer than k has expired
NoStaleLonger(m, a, k) ==
    \A L \in CachedLens(m, a) :
        (\E M \in ProbedLens(a) : M < L /\ k = IPNetString(a, M))
            => Fresh(m[IPNetString(a, L)])

\* The Lookup returned without error and without a backend call
HitNoBackend(p) == pc[p] = "p_ret" /\ pf[p].err = "" /\ ~obs[p].called

\* C8 as stated: after AddressCache.Lookup(name) resolved name to A and the
\* backend answered successfully for each address, a direct Lookup of every
\* address in A within the expiry window is a hit without a backend call.
C8_AnyReportedPrefix == \A p \in Procs : Precached(p) => HitNoBackend(p)

\* C8 as amended: the same, for an address whose reported prefix is one the
\* descent probes (the canonical prefix of the address at a length from 1 to
\* the starting length), with no expired entry at a longer probed prefix.
C8_PrecachedAddressHits ==
    \A p \in Procs :
        ( /\ Precached(p)
          /\ ProbedPrefix(pf[p].addr, obs[p].hsnap.rec.Prefix)
          /\ NoStaleLonger(obs[p].snap, pf[p].addr, obs[p].hsnap.rec.Prefix) )
            => HitNoBackend(p)

\* A direct Lookup has hit the record that precaching fetched.
C8_Witness ==
    \E p \in Procs :
        /\ Precached(p)
        /\ ProbedPrefix(pf[p].addr, obs[p].hsnap.rec.Prefix)
        /\ HitNoBackend(p)
        /\ pf[p].out = obs[p].hsnap.rec

\* C9: when the resolution succeeds with addresses A, AddressCache.Lookup
\* returns and caches a record holding exactly A, in order, whatever the
\* precaching lookups returned.
C9_AddressesKept ==
    \A p \in Procs :
        (pc[p] = "a_ret" /\ obs[p].resolved /\ obs[p].rerr = "") =>
            /\ af[p].out.Name = af[p].name
            /\ af[p].out.Addresses = af[p].addrs
            /\ af[p].name \in DOMAIN addrData
            /\ addrData[af[p].name] = af[p].out

\* A Lookup has returned both resolved addresses although a precaching
\* lookup failed.
C9_Witness ==
    \E p \in Procs :
        /\ pc[p] = "a_ret"
        /\ obs[p].resolved
        /\ obs[p].rerr = ""
        /\ obs[p].perr
        /\ Len(af[p].addrs) = 2
        /\ af[p].out.Addresses = af[p].addrs

\* C10: in the record LookupRipestat builds, a non-zero ASN or a non-empty
\* country code set by the prefix-overview response is not overwritten by
\* the geolocation response.
C10_FirstValueWins ==
    [][ \A p \in Procs :
          (pc[p] = "p_call2" /\ pc'[p] = "p_rel") =>
              /\ pf[p].out.ASN # 0 => pf'[p].out.ASN = pf[p].out.ASN
              /\ pf[p].out.CountryCode # "" =>
                    pf'[p].out.CountryCode = pf[p].out.CountryCode ]_vars

\* main has read a dump whose Version member differs from the storage version
MismatchedDump ==
    file.present /\ file.decodes /\ file.hasVersion /\ file.Version # canidStorageVersion

\* main has read a dump whose Version member is the storage version
MatchingDump ==
    file.present /\ file.decodes /\ file.hasVersion /\ file.Version = canidStorageVersion

\* No handler has been entered and nothing has been answered
NothingServed ==
    /\ started = 0
    /\ \A p \in Procs : pc[p] = "idle" /\ http[p] = NoResponse

\* C11: after a dump with a Version other than the storage version is
\* loaded, main ends in a fatal error, no handler is registered and no lookup
\* is served; after a dump with the storage version, the loaded entries are
\* in the maps when serving begins, and the first request for a loaded
\* entry that has not expired is answered from it.
C11_VersionGate ==
    /\ MismatchedDump => (mainpc \in {"check", "fatal"} /\ NothingServed)
    /\ mainpc = "fatal" => NothingServed
    /\ (MatchingDump /\ mainpc = "check") =>
          (prefixData = file.Prefixes /\ addrData = file.Addresses)
    /\ (MatchingDump /\ started = 0) => mainpc \in {"check", "serving"}
    /\ \A p \in Procs :
          (MatchingDump /\ started = 1 /\ pc[p] = "p_ret") =>
              \A k \in DOMAIN file.Prefixes :
                  (FirstMet(file.Prefixes, pf[p].addr, k) /\ Fresh(file.Prefixes[k]))
                      => ReturnedHit(p, file.Prefixes[k])
    /\ \A p \in Procs :
          (MatchingDump /\ started = 1 /\ pc[p] = "a_ret") =>
              \A n \in DOMAIN file.Addresses :
                  (af[p].name = n /\ FreshAddr(file.Addresses[n]))
                      => (af[p].out = file.Addresses[n] /\ ~obs[p].resolved)

\* main has ended in a fatal error on a dump of another version, with
\* nothing served.
C11_Witness == MismatchedDump /\ mainpc = "fatal" /\ NothingServed

EvictedAboveFresh(p) ==
    /\ pc[p] = "p_ret"
    /\ \E L \in ProbedLens(pf[p].addr), M \in ProbedLens(pf[p].addr) :
          /\ M < L
          /\ IPNetString(pf[p].addr, L) \in obs[p].evicted
          /\ IPNetString(pf[p].addr, M) \in DOMAIN obs[p].snap
          /\ Fresh(obs[p].snap[IPNetString(pf[p].addr, M)])

\* C13: when the descent evicts an expired entry at length L it goes on with
\* the lengths below L, so an unexpired entry at a shorter covering prefix
\* is returned as a hit, without a backend call.
C13_DescentContinues ==
    \A p \in Procs :
        EvictedAboveFresh(p) => (pf[p].err = "" /\ ~obs[p].called)

\* C14: every entry of the prefix map is keyed by the prefix the backend
\* reported: each key equals the Prefix field of the record stored under it.
C14_KeyIsReportedPrefix ==
    \A k \in DOMAIN prefixData : prefixData[k].Prefix = k

\* A record fetched for AddrA is stored under a reported prefix that no
\* descent of AddrA probes.
C14_Witness ==
    LET k == IPNetString(AddrA, addrbits(AddrA))
    IN  /\ hist[AddrA].set
        /\ hist[AddrA].rec.Prefix = k
        /\ ~ProbedPrefix(AddrA, k)
        /\ k \in DOMAIN prefixData
        /\ prefixData[k] = hist[AddrA].rec

\* p's step is the insert of its PrefixCache.Lookup
InsertStep(p) == pc[p] = "p_ins" /\ pc'[p] # "p_ins"

\* C15 as stated: between two insertions under the same key there is an
\* eviction of that key, that is, no insert finds its key in the map.
C15_InsertOnlyAfterEviction ==
    [][ \A p \in Procs : InsertStep(p) => pf[p].out.Prefix \notin DOMAIN prefixData ]_vars

\* C15 as amended: a record under a key is never changed in place by a hit
\* or by any other step than an insert; it is replaced only, as a whole, by
\* the insert of a Lookup that missed, called the backend and was given that
\* key as the reported prefix (the insert does not look whether the key is
\* still there).
C15_ReplacedOnlyByInsert ==
    [][ \A k \in DOMAIN prefixData :
          (k \in DOMAIN prefixData' /\ prefixData'[k] # prefixData[k]) =>
              \E p \in Procs :
                  /\ InsertStep(p)
                  /\ obs[p].called
                  /\ pf[p].out.Prefix = k
                  /\ prefixData'[k] = pf[p].out ]_vars

\* Both goroutines looked up the same address, missed, called the backend
\* with success and were given the same prefix, and have returned
BothFetched(p, q) ==
    /\ p # q
    /\ pc[p] = "p_ret" /\ pc[q] = "p_ret"
    /\ obs[p].called /\ obs[q].called
    /\ pf[p].err = "" /\ pf[q].err = ""
    /\ pf[p].addr = pf[q].addr
    /\ pf[p].out.Prefix = pf[q].out.Prefix

\* Two lookups have inserted under the same key one after the other, and
\* the map holds the second record in place of the first.
C15_Witness ==
    /\ BothFetched(1, 2)
    /\ pf[1].out # pf[2].out
    /\ prefixData[pf[2].out.Prefix] = pf[2].out

\* C16: when two concurrent lookups of the same address both miss and both
\* call the backend, the map afterwards holds one entry for the reported
\* prefix, and it is the record of the Lookup that inserted last.
C16_LastWriterWins ==
    \A p \in Procs, q \in Procs :
        BothFetched(p, q) =>
            /\ pf[p].out.Prefix \in DOMAIN prefixData
            /\ prefixData[pf[p].out.Prefix] = hist[pf[p].addr].rec
            /\ hist[pf[p].addr].rec \in {pf[p].out, pf[q].out}

\* Both lookups missed and fetched; the one that stamped its record first
\* inserted last, and the map holds its record.
C16_Witness ==
    \E p \in Procs, q \in Procs :
        /\ BothFetched(p, q)
        /\ pf[p].out.Cached < pf[q].out.Cached
        /\ hist[pf[p].addr].rec = pf[p].out
        /\ prefixData[pf[p].out.Prefix] = pf[p].out

\* p holds the lock, for reading or for writing
Holds(lock, p) == p \in lock.r \/ p \in lock.w

\* p waits for a slot of the prefix limiter or of the address limiter
AtLimiter(p) == pc[p] \in {"p_acq", "a_acq"}

\* C17: a goroutine that waits for a limiter slot, or is inside
\* LookupRipestat or net.LookupIP, holds neither the prefix-cache lock nor
\* the address-cache lock.
C17_NoLockDuringIO ==
    \A p \in Procs :
        (AtLimiter(p) \/ InBackend(p) \/ InResolver(p)) =>
            (~Holds(prefixLock, p) /\ ~Holds(addrLock, p))

\* One goroutine is inside its backend call while another holds the prefix
\* cache's lock for writing.
C17_Witness ==
    \E p \in Procs, q \in Procs :
        /\ pc[p] = "p_call1"
        /\ q # p
        /\ prefixLock.w = {q}

\* p is inside a PrefixCache.Lookup made by the precaching loop
Precaching(p) ==
    /\ top[p] = "address"
    /\ pc[p] \in {"p_rlock", "p_read", "p_check", "p_wlock", "p_del", "p_acq",
                  "p_call1", "p_call2", "p_rel", "p_stamp", "p_ilock", "p_ins"}

\* C18: no goroutine holds the address-cache lock and the prefix-cache lock
\* at the same time, and an AddressCache.Lookup holds no address-cache lock
\* from the start of its first precaching lookup to the return of the last.
C18_NoNestedLocks ==
    \A p \in Procs :
        /\ ~(Holds(addrLock, p) /\ Holds(prefixLock, p))
        /\ (Precaching(p) \/ pc[p] = "a_loop") => ~Holds(addrLock, p)

\* A precaching lookup holds the prefix cache's lock while another
\* goroutine holds the address cache's lock.
C18_Witness ==
    \E p \in Procs, q \in Procs :
        /\ Precaching(p)
        /\ Holds(prefixLock, p)
        /\ q # p
        /\ Holds(addrLock, q)

\* When p's AddressCache.Lookup(name) began, the map held an entry for
\* name, and the Lookup has returned
ReturnedOnPresent(p) ==
    pc[p] = "a_ret" /\ af[p].name \in DOMAIN obs[p].asnap

\* C19: AddressCache.Lookup(name) on a present, unexpired entry returns that
\* entry, takes no limiter slot, calls neither the resolver nor
\* PrefixCache.Lookup, and leaves both maps as they were.
C19_HitIsPure ==
    \A p \in Procs :
        (ReturnedOnPresent(p) /\ FreshAddr(obs[p].asnap[af[p].name])) =>
            /\ af[p].out = obs[p].asnap[af[p].name]
            /\ ~obs[p].resolved
            /\ ~obs[p].aevicted
            /\ obs[p].pcalls = 0 /\ ~obs[p].called
            /\ af[p].addrs = <<>>
            /\ addrData = obs[p].asnap
            /\ prefixData = obs[p].psnap
            /\ addrLimiter = 0 /\ prefixLimiter = 0

\* A Lookup has returned a cached record that holds addresses, and both
\* maps are as they were.
C19_Witness ==
    \E p \in Procs :
        /\ ReturnedOnPresent(p)
        /\ FreshAddr(obs[p].asnap[af[p].name])
        /\ obs[p].asnap[af[p].name].Addresses # <<>>
        /\ af[p].out = obs[p].asnap[af[p].name]
        /\ addrData = obs[p].asnap
        /\ prefixData = obs[p].psnap

\* The entry for name was already expired when p's Lookup(name) began
ExpiredAtStart(p) ==
    obs[p].atstart - obs[p].asnap[af[p].name].Cached > Expiry

\* C20: AddressCache.Lookup(name) on a present but expired entry evicts it,
\* resolves the name again, and returns and stores a record whose addresses
\* are those of the new resolution (none if it failed) and whose Cached is a
\* time stamp taken during this Lookup, after the expired record's.
C20_ExpiredIsRefetched ==
    \A p \in Procs :
        (ReturnedOnPresent(p) /\ ExpiredAtStart(p)) =>
            /\ obs[p].aevicted
            /\ obs[p].resolved
            /\ af[p].out.Name = af[p].name
            /\ af[p].out.Addresses = IF obs[p].rerr = "" THEN af[p].addrs ELSE <<>>
            /\ af[p].out.Cached >= obs[p].atstart
            /\ af[p].out.Cached <= now
            /\ af[p].out.Cached > obs[p].asnap[af[p].name].Cached
            /\ af[p].name \in DOMAIN addrData
            /\ addrData[af[p].name] = af[p].out

\* The expired record held an address, the new resolution failed, and the
\* Lookup has returned and stored a record without addresses.
C20_Witness ==
    \E p \in Procs :
        /\ ReturnedOnPresent(p)
        /\ ExpiredAtStart(p)
        /\ obs[p].asnap[af[p].name].Addresses # <<>>
        /\ obs[p].rerr # ""
        /\ af[p].out.Addresses = <<>>
        /\ addrData[af[p].name] = af[p].out

\* p's step is the delete of the expired entry its descent has just probed
DeleteStep(p) == pc[p] = "p_del" /\ pc'[p] # "p_del"

\* p's step is the delete or the insert of its AddressCache.Lookup
AddressMapStep(p) ==
    \/ pc[p] = "a_del" /\ pc'[p] # "a_del"
    \/ pc[p] = "a_ins" /\ pc'[p] # "a_ins"

\* Once the server serves, the prefix map changes only in the delete or the
\* insert of a PrefixCache.Lookup, a key leaves it only in the delete of a
\* Lookup that has probed that key, and the address map changes only in the
\* delete or the insert of an AddressCache.Lookup
MapsChangeOnlyInLookups ==
    /\ prefixData' # prefixData =>
          \E p \in Procs : DeleteStep(p) \/ InsertStep(p)
    /\ \A k \in DOMAIN prefixData :
          k \notin DOMAIN prefixData' =>
              \E p \in Procs :
                  DeleteStep(p) /\ k = IPNetString(pf[p].addr, pf[p].i)
    /\ addrData' # addrData => \E p \in Procs : AddressMapStep(p)

\* p's PrefixCache.Lookup has returned a hit without having evicted anything
HitOnFirstEntry(p) ==
    pc[p] = "p_ret" /\ pf[p].err = "" /\ ~obs[p].called /\ obs[p].evicted = {}

C22_IndependentLimiters ==
    /\ Cardinality({p \in Procs : InResolver(p)}) <= Concurrency
    /\ addrLimiter = Cardinality({p \in Procs : InResolver(p)})
    /\ prefixLimiter = Cardinality({p \in Procs : InBackend(p)})

\* Both limiters are full at the same time: as many resolutions and as many
\* backend calls are in flight as each limiter allows.
C22_Witness ==
    /\ Cardinality({p \in Procs : pc[p] = "a_resolve"}) = Concurrency
    /\ Cardinality({p \in Procs : pc[p] = "p_call1"}) = Concurrency

\* p's LookupRipestat has made both queries and PrefixCache.Lookup has
\* gone on with the record
AfterGeoloc(p) ==
    /\ pc[p] \in {"p_rel", "p_stamp", "p_ilock", "p_ins", "p_ret"}
    /\ obs[p].geo.called

\* C23: in the record LookupRipestat builds, a prefix that the first
\* response has set to a non-empty value is not changed by the second
\* response.
C23_PrefixSetOnce ==
    \A p \in Procs :
        (AfterGeoloc(p) /\ obs[p].first.Prefix # "") =>
            pf[p].out.Prefix = obs[p].first.Prefix

\* The second response reported another prefix than the first, and the
\* record has kept the prefix of the first.
C23_Witness ==
    \E p \in Procs :
        /\ AfterGeoloc(p)
        /\ obs[p].first.Prefix # ""
        /\ obs[p].geo.err = ""
        /\ obs[p].geo.prefix # ""
        /\ obs[p].geo.prefix # obs[p].first.Prefix
        /\ pf[p].out.Prefix = obs[p].first.Prefix

\* p's Lookup has returned after a prefix-overview query that succeeded and
\* a geolocation query that failed
GeolocFailed(p) ==
    /\ pc[p] = "p_ret"
    /\ obs[p].called
    /\ obs[p].berr = ""
    /\ obs[p].geo.called
    /\ obs[p].geo.err # ""

RestartInputs ==
    [lookups |-> MaxLookups,
     history |-> FALSE,
     trace |-> FALSE,
     files |-> {DumpFile(TRUE, canidStorageVersion, 0),
                DumpFile(TRUE, canidStorageVersion, 0 - (Expiry + 1))},
     queries |-> {IPString(AddrA)},
     names |-> {"example.test"},
     responses |->
        OkDocs({IPNetString(AddrA, prefixlen(AddrA))}, {IPNetString(AddrA, 1)},
               {<<1>>}, {<<>>})
        \cup {FailedDoc("", "error")},
     resolutions |->
        { [err |-> "no such host", addrs |-> <<>>],
          [err |-> "", addrs |-> <<AddrA>>] }]

NextRestart ==
    MainStep(RestartInputs) \/ (\E p \in Procs : Step(p, RestartInputs)) \/ Tick

SpecRestart == Init /\ [][NextRestart]_vars

\* The entry under k, if there is one, has expired
GoneOrExpired(m, k) == k \in DOMAIN m => now - m[k].Cached > Expiry

\* C24: a Lookup never removes an unexpired entry: whatever the
\* interleaving, the entry that a delete of PrefixCache.Lookup or of
\* AddressCache.Lookup removes is expired at the moment of the delete.
C24_DeleteOnlyExpired ==
    [][ \A p \in Procs :
          /\ DeleteStep(p) =>
                GoneOrExpired(prefixData, IPNetString(pf[p].addr, pf[p].i))
          /\ (pc[p] = "a_del" /\ pc'[p] # "a_del") =>
                GoneOrExpired(addrData, af[p].name) ]_vars

\* The restarted server within one second (the dump's entries are fresh or
\* stale from the start, so that hits and evictions both happen)
NextFair == MainStep(RestartInputs) \/ (\E p \in Procs : Step(p, RestartInputs))

\* The same under a fair scheduler: main and every goroutine that can take
\* a step eventually takes one (a backend call or a resolution in progress
\* eventually returns)
SpecFair ==
    /\ Init
    /\ [][NextFair]_vars
    /\ WF_vars(MainStep(RestartInputs))
    /\ \A p \in Procs : WF_vars(Step(p, RestartInputs))

\* p is inside a Lookup that the front end asked for
InLookup(p) == pc[p] \notin {"idle", "p_ret", "a_ret", "h_done"}

\* Some goroutine can take a step
CanStep == ENABLED (\E p \in Procs : Step(p, RestartInputs))

\* C25: under fair scheduling, with backend calls and resolutions that
\* return, every PrefixCache.Lookup and every AddressCache.Lookup, the
\* precaching lookups included, eventually returns, and no reachable state
\* with a Lookup in progress is a deadlock on locks or limiter slots.
C25_LookupsReturn ==
    /\ \A p \in Procs : InLookup(p) ~> (pc[p] \in {"p_ret", "a_ret"})
    /\ \A p \in Procs : Precaching(p) ~> (pc[p] = "a_loop")
    /\ []((\E p \in Procs : InLookup(p)) => CanStep)

\* A goroutine inside a Lookup waits for the prefix cache's write lock
\* while another goroutine holds that lock.
C25_Witness ==
    \E p \in Procs, q \in Procs :
        /\ p # q
        /\ pc[p] \in {"p_wlock", "p_ilock"}
        /\ Holds(prefixLock, q)

\* p waits for, or holds, a slot of the prefix cache's limiter on behalf of
\* an address lookup
PrecachingAtLimiter(p) ==
    /\ top[p] = "address"
    /\ pc[p] = "p_acq" \/ InBackend(p)

\* C26: AddressCache.Lookup gives its slot of the address limiter back
\* before it starts precaching: whenever a goroutine waits for, or holds, a
\* slot of the prefix limiter on behalf of an address lookup, it is not
\* inside the resolution and the address limiter holds only the slots of
\* the other goroutines' resolutions.
C26_NoAddressSlotWhilePrecaching ==
    \A p \in Procs :
        PrecachingAtLimiter(p) =>
            /\ ~InResolver(p)
            /\ addrLimiter = Cardinality({q \in Procs \ {p} : InResolver(q)})

\* A precaching lookup waits for a slot of the prefix limiter, which another
\* goroutine's backend call holds, after a resolution that succeeded.
C26_Witness ==
    \E p \in Procs, q \in Procs :
        /\ p # q
        /\ top[p] = "address"
        /\ pc[p] = "p_acq"
        /\ af[p].err = ""
        /\ Len(af[p].addrs) > 0
        /\ InBackend(q)
        /\ prefixLimiter = Concurrency

====
